---- MODULE Spec2Model ----
(***************************************************************************)
(* Model of the action-tailscale run() pipelines and of runWithTimeout.    *)
(*                                                                         *)
(* The repository holds four variants of run():                            *)
(*   "main"      src/src/main.ts      lines 10-179  (exe installer/extract) *)
(*   "archive"   src/unnamed/part_002 lines 10-174  (always extract)        *)
(*   "pkg"       src/unnamed/part_003 lines 34-212  (exe / pkg / tgz)       *)
(*   "goinstall" src/unnamed/part_001 lines 6-57    (go install)            *)
(* Strings that the code transforms (version, checksums) are sequences of  *)
(* one-character strings; strings that are only compared are TLA+ strings. *)
(***************************************************************************)
EXTENDS Integers, Sequences, FiniteSets, TLC

VARIABLES
    variant,      \* which run() is executing
    inp,          \* core.getInput values, read once at the top of run()
    os, arch,     \* RUNNER_OS, RUNNER_ARCH (upper-cased)
    timeoutStr,   \* core.getInput('timeout') || '2m'
    additionalArgs, \* core.getInput('args')
    pc,           \* position of run()
    finalChannel, finalVersion,
    plat,         \* result of the platform resolver
    sha256sum,    \* expected checksum (input, or fetched)
    searchPath,   \* directory handed to core.addPath
    daemonDir,    \* directory in which the daemon binary is looked up
    daemonAt,     \* directory of the archive that really holds the daemon
    status,       \* "running" | "success" | "failed" | "none"
    failMsg,      \* argument of core.setFailed
    effects,      \* network calls, processes and file steps, in order
    warnings,     \* core.warning calls
    upArgs,       \* the identity part of the bring-up command
    timeoutMs,    \* parseDurationToMs(timeoutStr), -1 before it is computed
    extraArgs,    \* splitArgs(additionalArgs)
    childKind,    \* behaviour of the spawned bring-up process
    exited,       \* runWithTimeout: let exited
    timer,        \* runWithTimeout: state of the setTimeout timer
    promise,      \* runWithTimeout: state of the returned Promise
    sigterm,      \* cp.kill('SIGTERM') was called
    killed,       \* the signal was delivered to the process
    errPending,   \* an 'error' event is queued for the child
    exitEmitted,  \* the 'exit' event has been emitted
    exitCode,     \* code passed to the 'exit' listener
    firstEvent,   \* which listener ran first
    settleCalls   \* number of resolve()/reject() calls made

vars == << variant, inp, os, arch, timeoutStr, additionalArgs, pc, finalChannel,
           finalVersion, plat, sha256sum, searchPath, daemonDir, daemonAt,
           status, failMsg, effects, warnings, upArgs, timeoutMs, extraArgs,
           childKind, exited, timer, promise, sigterm,
           killed, errPending, exitEmitted, exitCode, firstEvent,
           settleCalls >>

runVars   == << variant, inp, os, arch, timeoutStr, additionalArgs >>
pipeVars  == << finalChannel, finalVersion, plat, sha256sum, searchPath,
                daemonDir, daemonAt >>
childVars == << childKind, exited, timer, promise, sigterm, killed,
                errPending, exitEmitted, exitCode, firstEvent, settleCalls >>

----------------------------------------------------------------------------
(* Bounds and program constants *)

\* largest exit code a child is given in the model
MaxExitCode == 2

\* the 'exit' listener receives code === null when a signal ended the child
Null == -1

ExitCodes == 0 .. MaxExitCode

\* longest duration string given to parseDurationToMs
MaxDurationLen == 3

\* longest argument string given to splitArgs
MaxArgsLen == 5

----------------------------------------------------------------------------
(* Strings as character sequences *)

Upper == << "A","B","C","D","E","F","G","H","I","J","K","L","M",
            "N","O","P","Q","R","S","T","U","V","W","X","Y","Z" >>
Lower == << "a","b","c","d","e","f","g","h","i","j","k","l","m",
            "n","o","p","q","r","s","t","u","v","w","x","y","z" >>

ToLowerChar(c) ==
    IF \E i \in 1 .. Len(Upper) : Upper[i] = c
    THEN Lower[CHOOSE i \in 1 .. Len(Upper) : Upper[i] = c]
    ELSE c

\* String.prototype.toLowerCase
ToLowerCase(s) == [ i \in 1 .. Len(s) |-> ToLowerChar(s[i]) ]

Whitespace == { " ", "\n", "\t" }

\* s.replace(/\s+/g, '')
StripWhitespace(s) == SelectSeq(s, LAMBDA c : c \notin Whitespace)

RECURSIVE TrimStart(_)
TrimStart(s) ==
    IF s # << >> /\ Head(s) \in Whitespace THEN TrimStart(Tail(s)) ELSE s

RECURSIVE TrimEnd(_)
TrimEnd(s) ==
    IF s # << >> /\ s[Len(s)] \in Whitespace
    THEN TrimEnd(SubSeq(s, 1, Len(s) - 1)) ELSE s

\* String.prototype.trim
Trim(s) == TrimEnd(TrimStart(s))

LATEST == << "l","a","t","e","s","t" >>

----------------------------------------------------------------------------
(* Inputs and environment of one run *)

Variants == { "main", "archive", "pkg", "goinstall" }
Pipelines == { "main", "archive", "pkg" }

ChannelInputs == { "", "stable", "unstable", "beta" }
VersionInputs == { << >>, << "L","a","t","e","s","t" >>, << "1",".","7" >> }
AuthKeyInputs == { "", "tskey" }
OauthSecretInputs == { "", "secret" }
TagsInputs == { "", "tag:ci" }
RunnerOSes == { "Linux", "macOS", "Windows", "FreeBSD" }
RunnerArchs == { "ARM64", "X86", "X64" }

\* hex digest of the downloaded file, as hash.digest('hex') returns it
FileDigest == << "a","f","0","9" >>
OtherDigest == << "b","e","1","2" >>
Sha256Inputs == { << >>, FileDigest, << "A","F","0","9" >>, OtherDigest }

\* name of the input that holds the OAuth client secret
OauthInputName(v) == IF v = "archive" THEN "oauth-secret" ELSE "oauth-client-secret"

\* the version the metadata endpoint of a channel reports
LatestOf(channel) ==
    IF channel = "unstable" THEN << "1",".","9" >> ELSE << "1",".","8" >>

NoPlat == [ fileName |-> << >>, installer |-> FALSE, pkg |-> FALSE,
            extract |-> FALSE, ext |-> "" ]
NoUpArgs == [ built |-> FALSE, oauth |-> FALSE, authkey |-> "",
              tagsFlag |-> FALSE, tagsValue |-> "" ]
Pending == [ kind |-> "pending" ]
NoMsg == [ kind |-> "" ]

\* the state of run() and of the bring-up child before the first statement
Fresh ==
    /\ finalChannel = "stable"
    /\ finalVersion = << >>
    /\ plat = NoPlat
    /\ sha256sum = inp.sha256sum
    /\ searchPath = "none"
    /\ daemonDir = "none"
    /\ daemonAt = "none"
    /\ status = "running"
    /\ failMsg = NoMsg
    /\ effects = << >>
    /\ warnings = { }
    /\ upArgs = NoUpArgs
    /\ timeoutMs = -1
    /\ extraArgs = << >>
    /\ childKind = "none"
    /\ exited = FALSE
    /\ timer = "unset"
    /\ promise = Pending
    /\ sigterm = FALSE
    /\ killed = FALSE
    /\ errPending = FALSE
    /\ exitEmitted = FALSE
    /\ exitCode = Null
    /\ firstEvent = "none"
    /\ settleCalls = 0

Init ==
    /\ variant \in Variants
    /\ inp \in [ channel : IF variant = "goinstall" THEN { "" } ELSE ChannelInputs,
                  version : VersionInputs,
                  authkey : AuthKeyInputs,
                  oauthSecret : OauthSecretInputs,
                  tags : TagsInputs,
                  sha256sum : IF variant = "goinstall" THEN { << >> } ELSE Sha256Inputs ]
    /\ os \in RunnerOSes
    /\ arch \in RunnerArchs
    /\ timeoutStr = << "2", "m" >>
    /\ additionalArgs = << >>
    /\ pc = "start"
    /\ Fresh

----------------------------------------------------------------------------
(* Helpers shared by the run() variants *)

Net(op, arg)  == [ k |-> "net",  op |-> op, arg |-> arg ]
Proc(op)      == [ k |-> "proc", op |-> op, arg |-> "" ]
Step(op)      == [ k |-> "fs",   op |-> op, arg |-> "" ]

\* core.setFailed(msg); return   (or: throw, caught by the catch of run())
Fail(msg) ==
    /\ status' = "failed"
    /\ failMsg' = msg
    /\ pc' = "done"

----------------------------------------------------------------------------
(* Input validation *)

ChannelVersionConflictNever(channelInput, versionInput) == FALSE

\* if (channelInput && versionInput)
ChannelVersionConflict(channelInput, versionInput) ==
    channelInput # "" /\ versionInput # << >>

IdentityInvalidTagsOptional(authKey, oauthSecret, tags) ==
    authKey = "" /\ oauthSecret = ""

\* if (authKey === '' && (oauthSecret === '' || tags === ''))
IdentityInvalid(authKey, oauthSecret, tags) ==
    authKey = "" /\ (oauthSecret = "" \/ tags = "")

Validate ==
    /\ pc = "start"
    /\ variant \in Pipelines
    /\ IF ChannelVersionConflict(inp.channel, inp.version)
          THEN Fail([ kind |-> "conflict" ])
       ELSE IF IdentityInvalid(inp.authkey, inp.oauthSecret, inp.tags)
          THEN Fail([ kind |-> "identity" ])
       ELSE /\ pc' = "resolve"
            /\ UNCHANGED << status, failMsg >>
    /\ UNCHANGED << runVars, pipeVars, effects, warnings, upArgs, timeoutMs, extraArgs, childVars >>

----------------------------------------------------------------------------
(* Release resolver *)

\* responses of GET https://pkgs.tailscale.com/<channel>/?mode=json
MetaResponses(channel) ==
    { [ status |-> 200, version |-> LatestOf(channel) ],
      [ status |-> 200, version |-> << >> ],       \* body without "Version"
      [ status |-> 404, version |-> << >> ] }

fetchLatestFromChannelUnchecked(resp) ==
    [ ok |-> TRUE, version |-> resp.version ]

\* fetchLatestFromChannel: the value returned, or the error thrown
fetchLatestFromChannel(resp) ==
    IF resp.status # 200 THEN [ ok |-> FALSE, msg |-> [ kind |-> "meta-http" ] ]
    ELSE IF resp.version = << >>
         THEN [ ok |-> FALSE, msg |-> [ kind |-> "meta-noversion" ] ]
    ELSE [ ok |-> TRUE, version |-> resp.version ]

IsLatestCaseSensitive(versionInput) == versionInput = LATEST

\* versionInput.toLowerCase() === 'latest'
IsLatest(versionInput) == ToLowerCase(versionInput) = LATEST

\* main.ts, part_002: an explicit channel must be 'stable' or 'unstable'
MainChannel(channelInput) ==
    IF channelInput # "" /\ channelInput \notin { "stable", "unstable" }
    THEN [ ok |-> FALSE, channel |-> "stable" ]
    ELSE [ ok |-> TRUE,
           channel |-> IF channelInput # "" THEN channelInput ELSE "stable" ]

\* part_003: channelInput === 'unstable' ? 'unstable' : 'stable'
PkgChannel(channelInput) ==
    [ ok |-> TRUE,
      channel |-> IF channelInput = "unstable" THEN "unstable" ELSE "stable" ]

ResolvedChannel(v, channelInput) ==
    IF v = "pkg" THEN PkgChannel(channelInput) ELSE MainChannel(channelInput)

\* the version comes from the metadata endpoint
NeedsMetadata(channelInput, versionInput) ==
    \/ channelInput # ""
    \/ versionInput = << >>
    \/ IsLatest(versionInput)

Resolve ==
    /\ pc = "resolve"
    /\ LET ch == ResolvedChannel(variant, inp.channel) IN
       IF ~ch.ok
       THEN /\ Fail([ kind |-> "invalid-channel" ])
            /\ UNCHANGED << finalChannel, finalVersion, effects >>
       ELSE IF NeedsMetadata(inp.channel, inp.version)
       THEN \E resp \in MetaResponses(ch.channel) :
              LET r == fetchLatestFromChannel(resp) IN
              /\ finalChannel' = ch.channel
              /\ effects' = Append(effects, Net("meta", ch.channel))
              /\ IF r.ok
                 THEN /\ finalVersion' = r.version
                      /\ pc' = "platform"
                      /\ UNCHANGED << status, failMsg >>
                 ELSE /\ Fail(r.msg)
                      /\ UNCHANGED finalVersion
       ELSE /\ finalChannel' = ch.channel
            /\ finalVersion' = inp.version
            /\ pc' = "platform"
            /\ UNCHANGED << status, failMsg, effects >>
    /\ UNCHANGED << runVars, plat, sha256sum, searchPath, daemonDir,
                    daemonAt, warnings, upArgs, timeoutMs, extraArgs, childVars >>

----------------------------------------------------------------------------
(* Platform resolver *)

mapArchNoArm(runnerArch) ==
    CASE runnerArch = "ARM64" -> "arm64"
      [] runnerArch = "X86"   -> "386"
      [] OTHER                -> "amd64"

\* ARM64 -> arm64, ARM -> arm, X86 -> 386, anything else -> amd64
mapArch(runnerArch) ==
    CASE runnerArch = "ARM64" -> "arm64"
      [] runnerArch = "ARM"   -> "arm"
      [] runnerArch = "X86"   -> "386"
      [] OTHER                -> "amd64"

\* main.ts getPlatformFile
getPlatformFile(o, a, version) ==
    IF o = "Linux"
    THEN [ fileName |-> << "tailscale_" >> \o version \o << "_", mapArch(a), ".tgz" >>,
           installer |-> FALSE, pkg |-> FALSE, extract |-> TRUE, ext |-> "tgz" ]
    ELSE IF o = "macOS"
    THEN IF a = "ARM64"
         THEN [ fileName |-> << "Tailscale-" >> \o version \o << "-macos-", "arm64", ".zip" >>,
                installer |-> FALSE, pkg |-> FALSE, extract |-> TRUE, ext |-> "zip" ]
         ELSE [ fileName |-> << "Tailscale-" >> \o version \o << "-macos", ".zip" >>,
                installer |-> FALSE, pkg |-> FALSE, extract |-> TRUE, ext |-> "zip" ]
    ELSE IF o = "Windows"
    THEN [ fileName |-> << "tailscale-setup-" >> \o version \o << ".exe" >>,
           installer |-> TRUE, pkg |-> FALSE, extract |-> FALSE, ext |-> "exe" ]
    ELSE NoPlat

\* part_002 getPlatformInfo, and the file name built from it
getPlatformInfo(o, a, version) ==
    LET platform == CASE o = "Linux"   -> "linux"
                      [] o = "macOS"   -> "darwin"
                      [] o = "Windows" -> "windows"
                      [] OTHER         -> ""
        archiveExt == IF o = "Windows" THEN "zip" ELSE "tgz"
    IN  IF platform = "" THEN NoPlat
        ELSE [ fileName |-> << "tailscale_" >> \o version
                              \o << "_", platform, "_", mapArch(a), ".", archiveExt >>,
               installer |-> FALSE, pkg |-> FALSE, extract |-> TRUE,
               ext |-> archiveExt ]

\* part_003 getTailscaleFilename
getTailscaleFilename(o, a, version) ==
    IF o = "Windows"
    THEN [ fileName |-> << "tailscale-setup-" >> \o version \o << ".exe" >>,
           installer |-> TRUE, pkg |-> FALSE, extract |-> FALSE, ext |-> "exe" ]
    ELSE IF o = "macOS"
    THEN [ fileName |-> << "Tailscale-" >> \o version \o << "-macos", ".pkg" >>,
           installer |-> FALSE, pkg |-> TRUE, extract |-> FALSE, ext |-> "pkg" ]
    ELSE IF o = "Linux"
    THEN [ fileName |-> << "tailscale_" >> \o version \o << "_", mapArch(a), ".tgz" >>,
           installer |-> FALSE, pkg |-> FALSE, extract |-> TRUE, ext |-> "tgz" ]
    ELSE NoPlat

PlatformOf(v, o, a, version) ==
    CASE v = "main"    -> getPlatformFile(o, a, version)
      [] v = "archive" -> getPlatformInfo(o, a, version)
      [] OTHER         -> getTailscaleFilename(o, a, version)

UnsupportedNever(p) == FALSE

\* if (!fileName)   /   if (!platform)
Unsupported(p) == p.fileName = << >>

Platform ==
    /\ pc = "platform"
    /\ LET p == PlatformOf(variant, os, arch, finalVersion) IN
       /\ plat' = p
       /\ IF Unsupported(p)
          THEN Fail([ kind |-> "unsupported" ])
          ELSE /\ pc' = "download"
               /\ UNCHANGED << status, failMsg >>
    /\ UNCHANGED << runVars, finalChannel, finalVersion, sha256sum, searchPath,
                    daemonDir, daemonAt, effects, warnings, upArgs, timeoutMs, extraArgs, childVars >>

----------------------------------------------------------------------------
(* Artifact fetcher and verifier *)

\* tc.downloadTool(downloadURL): the file is stored, or the call throws
Download ==
    /\ pc = "download"
    /\ effects' = Append(effects, Net("download", finalChannel))
    /\ \E ok \in BOOLEAN :
         IF ok THEN pc' = "sha" /\ UNCHANGED << status, failMsg >>
               ELSE Fail([ kind |-> "download" ])
    /\ UNCHANGED << runVars, pipeVars, warnings, upArgs, timeoutMs, extraArgs, childVars >>

\* responses of GET <downloadURL>.sha256
ShaResponses ==
    { [ status |-> 200, body |-> FileDigest \o << "\n" >> ],
      [ status |-> 200, body |-> OtherDigest ],
      [ status |-> 200, body |-> << "\n" >> ],
      [ status |-> 404, body |-> << >> ] }

\* fetchRemoteSha256: the value returned, or the error thrown
fetchRemoteSha256(resp) ==
    IF resp.status # 200 THEN [ ok |-> FALSE, sum |-> << >> ]
    ELSE [ ok |-> TRUE, sum |-> Trim(resp.body) ]

\* the same fetch without the try/catch around it
FetchChecksumFatal ==
    /\ pc = "sha"
    /\ IF sha256sum = << >>
       THEN \E resp \in ShaResponses :
              LET r == fetchRemoteSha256(resp) IN
              /\ effects' = Append(effects, Net("sha256", finalChannel))
              /\ IF r.ok
                 THEN /\ sha256sum' = r.sum
                      /\ pc' = "verify"
                      /\ UNCHANGED << status, failMsg >>
                 ELSE /\ Fail([ kind |-> "sha-fetch" ])
                      /\ UNCHANGED sha256sum
       ELSE /\ pc' = "verify"
            /\ UNCHANGED << sha256sum, effects, status, failMsg >>
    /\ UNCHANGED << runVars, finalChannel, finalVersion, plat, searchPath,
                    daemonDir, daemonAt, warnings, upArgs, timeoutMs, extraArgs, childVars >>

\* if (!sha256sum) { try { sha256sum = await fetchRemoteSha256(shaURL) } catch {warning} }
FetchChecksum ==
    /\ pc = "sha"
    /\ IF sha256sum = << >>
       THEN \E resp \in ShaResponses :
              LET r == fetchRemoteSha256(resp) IN
              /\ effects' = Append(effects, Net("sha256", finalChannel))
              /\ IF r.ok
                 THEN sha256sum' = r.sum /\ UNCHANGED warnings
                 ELSE /\ warnings' = warnings \cup { "sha-fetch-failed" }
                      /\ UNCHANGED sha256sum
       ELSE UNCHANGED << sha256sum, effects, warnings >>
    /\ pc' = "verify"
    /\ UNCHANGED << runVars, finalChannel, finalVersion, plat, searchPath,
                    daemonDir, daemonAt, status, failMsg, upArgs, timeoutMs, extraArgs, childVars >>

\* computeFileSha256(downloadPath): hash.digest('hex')
computeFileSha256 == FileDigest

ChecksumMismatchNever(actual, expected) == FALSE

\* actualSha256 !== sha256sum.replace(/\s+/g, '')
ChecksumMismatch(actual, expected) == actual # StripWhitespace(expected)

Verify ==
    /\ pc = "verify"
    /\ IF sha256sum # << >>
       THEN IF ChecksumMismatch(computeFileSha256, sha256sum)
            THEN Fail([ kind |-> "sha-mismatch" ]) /\ UNCHANGED warnings
            ELSE /\ pc' = "install"
                 /\ UNCHANGED << status, failMsg, warnings >>
       ELSE /\ warnings' = warnings \cup { "no-sha" }
            /\ pc' = "install"
            /\ UNCHANGED << status, failMsg >>
    /\ UNCHANGED << runVars, pipeVars, effects, upArgs, timeoutMs, extraArgs, childVars >>

----------------------------------------------------------------------------
(* Installer / extractor *)

\* fileName.endsWith(ext)
EndsWith(fileName, ext) ==
    fileName # << >> /\ fileName[Len(fileName)] = ext

\* where an extracted archive may hold the tailscaled binary
ArchiveLayouts == { "none", "extractDir", "subDir" }

resolveVars == << finalChannel, finalVersion, plat, sha256sum >>

\* exec.exec(downloadPath, ['/quiet'])
RunInstaller ==
    /\ effects' = Append(effects, Proc("installer"))
    /\ \E ok \in BOOLEAN :
         IF ok THEN pc' = "bringup" /\ UNCHANGED << status, failMsg >>
               ELSE Fail([ kind |-> "install" ])
    /\ UNCHANGED << searchPath, daemonDir, daemonAt, warnings >>

\* extractTar / extractZip, unlink, addPath(extractDir), look for the daemon in extractDir
ExtractToPath ==
    \E ok \in BOOLEAN, at \in ArchiveLayouts :
      IF ~ok
      THEN /\ effects' = Append(effects, Step("extract"))
           /\ Fail([ kind |-> "extract" ])
           /\ UNCHANGED << searchPath, daemonDir, daemonAt, warnings >>
      ELSE /\ effects' = effects \o << Step("extract"), Step("unlink") >>
           /\ searchPath' = "extractDir"
           /\ daemonDir' = "extractDir"
           /\ daemonAt' = at
           /\ IF at = "extractDir"
              THEN pc' = "daemon" /\ UNCHANGED warnings
              ELSE /\ warnings' = warnings \cup { "no-daemon" }
                   /\ pc' = "bringup"
           /\ UNCHANGED << status, failMsg >>

\* main.ts lines 117-150
InstallMain ==
    /\ pc = "install"
    /\ variant = "main"
    /\ IF plat.installer /\ os = "Windows"
       THEN RunInstaller
       ELSE IF plat.extract
       THEN IF \/ EndsWith(plat.fileName, ".tgz")
               \/ EndsWith(plat.fileName, ".tar.gz")
               \/ EndsWith(plat.fileName, ".zip")
            THEN ExtractToPath
            ELSE /\ Fail([ kind |-> "archive-extension" ])
                 /\ UNCHANGED << searchPath, daemonDir, daemonAt, warnings, effects >>
       ELSE /\ effects' = Append(effects, Step("unlink"))
            /\ warnings' = warnings \cup { "nothing-done" }
            /\ pc' = "bringup"
            /\ UNCHANGED << searchPath, daemonDir, daemonAt, status, failMsg >>
    /\ UNCHANGED << runVars, resolveVars, upArgs, timeoutMs, extraArgs, childVars >>

\* part_002 lines 124-145
InstallArchive ==
    /\ pc = "install"
    /\ variant = "archive"
    /\ IF plat.ext \in { "tgz", "zip" }
       THEN ExtractToPath
       ELSE /\ Fail([ kind |-> "archive-extension" ])
            /\ UNCHANGED << searchPath, daemonDir, daemonAt, warnings, effects >>
    /\ UNCHANGED << runVars, resolveVars, upArgs, timeoutMs, extraArgs, childVars >>

\* part_003 lines 124-139: rename, installer -pkg, launchctl load, launchctl start
RunPkgInstaller ==
    /\ \E done \in 0 .. 3 :
         LET cmds == << Proc("pkg-installer"), Proc("launchctl-load"),
                        Proc("launchctl-start") >>
         IN  /\ effects' = effects \o << Step("rename") >>
                               \o SubSeq(cmds, 1, IF done = 3 THEN 3 ELSE done + 1)
             /\ IF done = 3
                THEN pc' = "bringup" /\ UNCHANGED << status, failMsg >>
                ELSE Fail([ kind |-> "install" ])
    /\ UNCHANGED << searchPath, daemonDir, daemonAt, warnings >>

\* part_003 lines 141-165
ExtractLinuxTgz ==
    \E ok \in BOOLEAN, subDirExists \in BOOLEAN, at \in ArchiveLayouts :
      /\ at = "subDir" => subDirExists
      /\ IF ~ok
         THEN /\ effects' = Append(effects, Step("extract"))
              /\ Fail([ kind |-> "extract" ])
              /\ UNCHANGED << searchPath, daemonDir, daemonAt, warnings >>
         ELSE /\ effects' = effects \o << Step("extract"), Step("unlink") >>
              /\ searchPath' = IF subDirExists THEN "subDir" ELSE "extractDir"
              /\ daemonDir' = "subDir"
              /\ daemonAt' = at
              /\ IF at = "subDir"
                 THEN pc' = "daemon" /\ UNCHANGED warnings
                 ELSE /\ warnings' = warnings \cup { "no-daemon" }
                      /\ pc' = "bringup"
              /\ UNCHANGED << status, failMsg >>

\* part_003 lines 115-170
InstallPkg ==
    /\ pc = "install"
    /\ variant = "pkg"
    /\ IF plat.installer THEN RunInstaller
       ELSE IF plat.pkg THEN RunPkgInstaller
       ELSE IF plat.extract THEN ExtractLinuxTgz
       ELSE /\ warnings' = warnings \cup { "nothing-done" }
            /\ status' = "none"
            /\ pc' = "done"
            /\ UNCHANGED << searchPath, daemonDir, daemonAt, failMsg, effects >>
    /\ UNCHANGED << runVars, resolveVars, upArgs, timeoutMs, extraArgs, childVars >>

StateDirInputs == { "", "/var/lib/ts" }

\* startEphemeralTailscaled without the try/catch around the status probe
StartDaemonProbeFatal ==
    /\ pc = "daemon"
    /\ \E stateDir \in StateDirInputs, mkdirOk \in BOOLEAN, probeOk \in BOOLEAN :
         IF stateDir # "" /\ ~mkdirOk
         THEN /\ effects' = Append(effects, Step("mkdir"))
              /\ Fail([ kind |-> "mkdir" ])
         ELSE /\ effects' = effects
                   \o (IF stateDir # "" THEN << Step("mkdir") >> ELSE << >>)
                   \o << Proc("daemon"), Proc("status") >>
              /\ IF probeOk
                 THEN pc' = "bringup" /\ UNCHANGED << status, failMsg >>
                 ELSE Fail([ kind |-> "probe" ])
    /\ UNCHANGED << runVars, pipeVars, warnings, upArgs, timeoutMs, extraArgs,
                    childVars >>

\* startEphemeralTailscaled
StartDaemon ==
    /\ pc = "daemon"
    /\ \E stateDir \in StateDirInputs, mkdirOk \in BOOLEAN, probeOk \in BOOLEAN :
         IF stateDir # "" /\ ~mkdirOk
         THEN /\ effects' = Append(effects, Step("mkdir"))
              /\ Fail([ kind |-> "mkdir" ])
              /\ UNCHANGED warnings
         ELSE /\ effects' = effects
                   \o (IF stateDir # "" THEN << Step("mkdir") >> ELSE << >>)
                   \o << Proc("daemon"), Proc("status") >>
              /\ warnings' = IF probeOk THEN warnings
                                        ELSE warnings \cup { "probe-failed" }
              /\ pc' = "bringup"
              /\ UNCHANGED << status, failMsg >>
    /\ UNCHANGED << runVars, pipeVars, upArgs, timeoutMs, extraArgs, childVars >>

----------------------------------------------------------------------------
(* Timeout and extra arguments of the bring-up command *)

Digits == << "0","1","2","3","4","5","6","7","8","9" >>

\* \d
IsDigit(c) == \E i \in 1 .. Len(Digits) : Digits[i] = c

DigitValue(c) == (CHOOSE i \in 1 .. Len(Digits) : Digits[i] = c) - 1

\* parseInt(match[1], 10) on a string of digits
RECURSIVE parseInt(_)
parseInt(ds) ==
    IF ds = << >> THEN 0
    ELSE parseInt(SubSeq(ds, 1, Len(ds) - 1)) * 10 + DigitValue(ds[Len(ds)])

\* length of the greedy (\d+) at the start of s
RECURSIVE LeadingDigits(_)
LeadingDigits(s) ==
    IF s # << >> /\ IsDigit(Head(s)) THEN 1 + LeadingDigits(Tail(s)) ELSE 0

parseDurationToMsCaseSensitive(d) ==
    LET t    == Trim(d)
        n    == LeadingDigits(t)
        unit == SubSeq(t, n + 1, Len(t))
        val  == parseInt(SubSeq(t, 1, n))
    IN  IF n = 0 THEN 2 * 60000
        ELSE CASE unit = << "m", "s" >> -> val
               [] unit = << "s" >>      -> val * 1000
               [] unit = << "m" >>      -> val * 60000
               [] unit = << "h" >>      -> val * 3600000
               [] OTHER                 -> 2 * 60000

\* /^(\d+)(ms|s|m|h)$/.exec(d.trim().toLowerCase()), then the switch on match[2]
parseDurationToMs(d) ==
    LET t    == ToLowerCase(Trim(d))
        n    == LeadingDigits(t)
        unit == SubSeq(t, n + 1, Len(t))
        val  == parseInt(SubSeq(t, 1, n))
    IN  IF n = 0 THEN 2 * 60000
        ELSE CASE unit = << "m", "s" >> -> val
               [] unit = << "s" >>      -> val * 1000
               [] unit = << "m" >>      -> val * 60000
               [] unit = << "h" >>      -> val * 3600000
               [] OTHER                 -> 2 * 60000

Quote == "\""

\* index of the first '"' at or after position i, 0 when there is none
RECURSIVE NextQuote(_, _)
NextQuote(s, i) ==
    IF i > Len(s) THEN 0
    ELSE IF s[i] = Quote THEN i
    ELSE NextQuote(s, i + 1)

WordEndAtStart(s, i) == i

\* last index of the greedy [^\s"]+ that starts at position i
RECURSIVE WordEnd(_, _)
WordEnd(s, i) ==
    IF i < Len(s) /\ s[i + 1] \notin Whitespace \cup { Quote }
    THEN WordEnd(s, i + 1)
    ELSE i

\* args.push(match[1] ? match[1] : match[0])
PushedToken(group, whole) == IF group # << >> THEN group ELSE whole

\* while ((match = regex.exec(argString)) !== null), with lastIndex = i - 1
RECURSIVE ExecLoop(_, _)
ExecLoop(s, i) ==
    IF i > Len(s) THEN << >>
    ELSE IF s[i] \notin Whitespace \cup { Quote }
    THEN LET j == WordEnd(s, i)
         IN  << SubSeq(s, i, j) >> \o ExecLoop(s, j + 1)
    ELSE IF s[i] = Quote /\ NextQuote(s, i + 1) # 0
    THEN LET k == NextQuote(s, i + 1)
         IN  << PushedToken(SubSeq(s, i + 1, k - 1), SubSeq(s, i, k)) >>
                \o ExecLoop(s, k + 1)
    ELSE ExecLoop(s, i + 1)

\* splitArgs
splitArgs(argString) ==
    IF argString = << >> THEN << >> ELSE ExecLoop(argString, 1)

----------------------------------------------------------------------------
(* Bring-up command *)

HostnameInputs == { "", "ci-runner" }

\* finalAuthKey, tagsArg and the filter(Boolean) of upArgs
BuildUpArgs(authKey, oauthSecret, tags) ==
    IF oauthSecret # ""
    THEN [ built |-> TRUE, oauth |-> TRUE, authkey |-> oauthSecret,
           tagsFlag |-> TRUE, tagsValue |-> tags ]
    ELSE [ built |-> TRUE, oauth |-> FALSE, authkey |-> authKey,
           tagsFlag |-> FALSE, tagsValue |-> "" ]

\* the command handed to runWithTimeout
UpCommand(v, o) ==
    IF v = "pkg" /\ o = "Linux" THEN "sudo"
    ELSE IF v = "pkg" /\ o = "macOS" THEN "Tailscale.app"
    ELSE "tailscale"

ChildKinds == { "normal", "hang", "spawnfail" }

\* the bring-up step not waiting for the verify and install steps
BuildUpEarly ==
    /\ pc \in { "verify", "bringup" }
    /\ variant \in Pipelines
    /\ upArgs' = BuildUpArgs(inp.authkey, inp.oauthSecret, inp.tags)
    /\ timeoutMs' = parseDurationToMs(timeoutStr)
    /\ extraArgs' = splitArgs(additionalArgs)
    /\ \E hostnameInput \in HostnameInputs :
         effects' = effects
              \o (IF hostnameInput = "" THEN << Proc("hostname") >> ELSE << >>)
              \o << [ k |-> "proc", op |-> "up", arg |-> UpCommand(variant, os) ] >>
    /\ \E kind \in ChildKinds :
         /\ childKind' = kind
         /\ errPending' = (kind = "spawnfail")
    /\ timer' = "armed"
    /\ pc' = "up"
    /\ UNCHANGED << runVars, pipeVars, status, failMsg, warnings, exited, promise,
                    sigterm, killed, exitEmitted, exitCode, firstEvent,
                    settleCalls >>

\* tailscale up: build the arguments, then the synchronous part of runWithTimeout
BuildUp ==
    /\ pc = "bringup"
    /\ variant \in Pipelines
    /\ upArgs' = BuildUpArgs(inp.authkey, inp.oauthSecret, inp.tags)
    /\ timeoutMs' = parseDurationToMs(timeoutStr)
    /\ extraArgs' = splitArgs(additionalArgs)
    /\ \E hostnameInput \in HostnameInputs :
         effects' = effects
              \o (IF hostnameInput = "" THEN << Proc("hostname") >> ELSE << >>)
              \o << [ k |-> "proc", op |-> "up", arg |-> UpCommand(variant, os) ] >>
    /\ \E kind \in ChildKinds :
         /\ childKind' = kind
         /\ errPending' = (kind = "spawnfail")
    /\ timer' = "armed"
    /\ pc' = "up"
    /\ UNCHANGED << runVars, pipeVars, status, failMsg, warnings, exited, promise,
                    sigterm, killed, exitEmitted, exitCode, firstEvent,
                    settleCalls >>

----------------------------------------------------------------------------
(* runWithTimeout: the three callbacks *)

SettleOverwrite(p, outcome) == outcome

\* resolve() / reject() of the Promise: only the first call settles it
Settle(p, outcome) == IF p = Pending THEN outcome ELSE p

ExitOutcomeAlwaysSuccess(code) == [ kind |-> "success" ]

\* if (code === 0) resolve() else reject(new Error(`... exit code ${code}`))
ExitOutcome(code) ==
    IF code = 0 THEN [ kind |-> "success" ]
                ELSE [ kind |-> "exit", code |-> code ]

\* codes with which the child may end now
PossibleExitCodes ==
    CASE childKind = "normal" -> ExitCodes \cup { Null }
      [] childKind = "hang"   -> IF killed THEN { Null } ELSE { }
      [] OTHER                -> { }

First(ev) == IF firstEvent = "none" THEN ev ELSE firstEvent

\* the 'exit' listener without its clearTimeout
ExitHandlerKeepsTimer ==
    /\ pc \in { "up", "done" }
    /\ variant \in Pipelines
    /\ ~exitEmitted
    /\ \E code \in PossibleExitCodes :
         /\ exitCode' = code
         /\ promise' = Settle(promise, ExitOutcome(code))
    /\ exitEmitted' = TRUE
    /\ exited' = TRUE
    /\ settleCalls' = settleCalls + 1
    /\ firstEvent' = First("exit")
    /\ UNCHANGED << runVars, pipeVars, pc, status, failMsg, effects, warnings,
                    upArgs, timeoutMs, extraArgs, childKind, timer, sigterm,
                    killed, errPending >>

\* cp.on('exit', code => ...)
ExitHandler ==
    /\ pc \in { "up", "done" }
    /\ variant \in Pipelines
    /\ ~exitEmitted
    /\ \E code \in PossibleExitCodes :
         /\ exitCode' = code
         /\ promise' = Settle(promise, ExitOutcome(code))
    /\ exitEmitted' = TRUE
    /\ exited' = TRUE
    /\ timer' = IF timer = "armed" THEN "cleared" ELSE timer
    /\ settleCalls' = settleCalls + 1
    /\ firstEvent' = First("exit")
    /\ UNCHANGED << runVars, pipeVars, pc, status, failMsg, effects, warnings,
                    upArgs, timeoutMs, extraArgs, childKind, sigterm, killed, errPending >>

\* cp.on('error', err => ...): the spawn failed
ErrorHandler ==
    /\ pc \in { "up", "done" }
    /\ variant \in Pipelines
    /\ errPending
    /\ errPending' = FALSE
    /\ IF ~exited
       THEN /\ timer' = IF timer = "armed" THEN "cleared" ELSE timer
            /\ promise' = Settle(promise, [ kind |-> "error" ])
            /\ settleCalls' = settleCalls + 1
       ELSE UNCHANGED << timer, promise, settleCalls >>
    /\ firstEvent' = First("error")
    /\ UNCHANGED << runVars, pipeVars, pc, status, failMsg, effects, warnings,
                    upArgs, timeoutMs, extraArgs, childKind, exited, sigterm, killed, exitEmitted,
                    exitCode >>

\* cp.kill('SIGTERM') on a child started through sudo may fail with EPERM;
\* kill() then emits 'error' before it returns
KillResults(cmd) ==
    IF cmd = "sudo" THEN { "delivered", "eperm" } ELSE { "delivered" }

TimerHandlerNoReject(p, result) == p

\* body of the setTimeout callback when !exited: kill, then reject(timed out)
TimerHandlerSettle(p, result) ==
    LET afterKill == IF result = "eperm"
                     THEN Settle(p, [ kind |-> "error" ])   \* 'error' listener
                     ELSE p
    IN  Settle(afterKill, [ kind |-> "timeout" ])

\* timer = setTimeout(() => { if (!exited) {...} }, timeoutMs)
TimerFire ==
    /\ pc \in { "up", "done" }
    /\ variant \in Pipelines
    /\ timer = "armed"
    /\ ~errPending          \* a failed spawn reports on the next tick, before any timer
    /\ timer' = "fired"
    /\ IF ~exited
       THEN \E result \in KillResults(UpCommand(variant, os)) :
              /\ sigterm' = TRUE
              /\ killed' = (result = "delivered")
              /\ promise' = TimerHandlerSettle(promise, result)
              /\ settleCalls' = settleCalls + (IF result = "eperm" THEN 2 ELSE 1)
       ELSE UNCHANGED << sigterm, killed, promise, settleCalls >>
    /\ firstEvent' = First("timer")
    /\ UNCHANGED << runVars, pipeVars, pc, status, failMsg, effects, warnings, upArgs, timeoutMs, extraArgs,
                    childKind, exited, errPending, exitEmitted, exitCode >>

\* await runWithTimeout(...): run() resumes once the Promise is settled
AwaitUp ==
    /\ pc = "up"
    /\ promise # Pending
    /\ IF promise.kind = "success"
       THEN /\ status' = "success"
            /\ pc' = "done"
            /\ UNCHANGED failMsg
       ELSE Fail(promise)
    /\ UNCHANGED << runVars, pipeVars, effects, warnings, upArgs, timeoutMs, extraArgs, childVars >>

----------------------------------------------------------------------------
(* The go-install variant (part_001; compiled copy at main.ts 434-490) *)

\* versionInput.replace(/^v/, '')
StripLeadingV(s) == IF s # << >> /\ Head(s) = "v" THEN Tail(s) ELSE s

\* core.getInput('version') || 'latest'
GoVersionInput(versionInput) ==
    IF versionInput = << >> THEN LATEST ELSE versionInput

\* tailscaleRef
GoRef(versionInput) ==
    IF ToLowerCase(GoVersionInput(versionInput)) = LATEST
    THEN << "m","a","i","n" >>
    ELSE << "v" >> \o StripLeadingV(GoVersionInput(versionInput))

\* go install ...@ref, then getGoPath()
GoInstall ==
    /\ pc = "start"
    /\ variant = "goinstall"
    /\ finalVersion' = GoRef(inp.version)
    /\ \E installOk \in BOOLEAN, gopathSet \in BOOLEAN, envOk \in BOOLEAN :
         IF ~installOk
         THEN /\ effects' = Append(effects, Proc("go-install"))
              /\ Fail([ kind |-> "install" ])
         ELSE IF gopathSet
         THEN /\ effects' = Append(effects, Proc("go-install"))
              /\ pc' = "daemon"
              /\ UNCHANGED << status, failMsg >>
         ELSE /\ effects' = effects \o << Proc("go-install"), Proc("go-env") >>
              /\ IF envOk THEN pc' = "daemon" /\ UNCHANGED << status, failMsg >>
                          ELSE Fail([ kind |-> "go-env" ])
    /\ UNCHANGED << runVars, finalChannel, plat, sha256sum, searchPath, daemonDir,
                    daemonAt, warnings, upArgs, timeoutMs, extraArgs, childVars >>

\* part_001 lines 21-33
GoDaemon ==
    /\ pc = "daemon"
    /\ variant = "goinstall"
    /\ IF os \in { "Linux", "macOS", "Windows" }
       THEN /\ effects' = Append(effects, Proc("daemon"))
            /\ pc' = "bringup"
            /\ UNCHANGED << status, failMsg >>
       ELSE /\ Fail([ kind |-> "unsupported" ])
            /\ UNCHANGED effects
    /\ UNCHANGED << runVars, pipeVars, warnings, upArgs, timeoutMs, extraArgs, childVars >>

\* part_001 lines 34-52: exec.exec of the bring-up command, no timer
GoUp ==
    /\ pc = "bringup"
    /\ variant = "goinstall"
    /\ upArgs' = BuildUpArgs(inp.authkey, inp.oauthSecret, inp.tags)
    /\ extraArgs' = splitArgs(additionalArgs)
    /\ effects' = Append(effects,
           [ k |-> "proc", op |-> "up",
             arg |-> IF os \in { "Linux", "macOS" } THEN "sudo" ELSE "tailscale" ])
    /\ childKind' \in ChildKinds
    /\ pc' = "goexec"
    /\ UNCHANGED << runVars, pipeVars, status, failMsg, warnings, timeoutMs,
                    exited, timer, promise, sigterm, killed, errPending,
                    exitEmitted, exitCode, firstEvent, settleCalls >>

\* exec.exec settles when the child ends: it throws unless the exit code is 0
GoUpDone ==
    /\ pc = "goexec"
    /\ childKind \in { "normal", "spawnfail" }
    /\ IF childKind = "spawnfail"
       THEN Fail([ kind |-> "error" ]) /\ UNCHANGED << exitCode, exitEmitted >>
       ELSE \E code \in ExitCodes \cup { Null } :
              /\ exitCode' = code
              /\ exitEmitted' = TRUE
              /\ IF code = 0
                 THEN status' = "success" /\ pc' = "done" /\ UNCHANGED failMsg
                 ELSE Fail([ kind |-> "exit", code |-> code ])
    /\ UNCHANGED << runVars, pipeVars, effects, warnings, upArgs, timeoutMs, extraArgs, childKind,
                    exited, timer, promise, sigterm, killed, errPending,
                    firstEvent, settleCalls >>

----------------------------------------------------------------------------
(* Specifications *)

Next ==
    \/ Validate
    \/ Resolve
    \/ Platform
    \/ Download
    \/ FetchChecksum
    \/ Verify
    \/ InstallMain
    \/ InstallArchive
    \/ InstallPkg
    \/ StartDaemon
    \/ BuildUp
    \/ ExitHandler
    \/ ErrorHandler
    \/ TimerFire
    \/ AwaitUp
    \/ GoInstall
    \/ GoDaemon
    \/ GoUp
    \/ GoUpDone

Spec == Init /\ [][Next]_vars

\* The event loop runs an armed timer's callback and resumes an awaiting run().
FairSpec == Spec /\ WF_vars(TimerFire) /\ WF_vars(AwaitUp)

\* RUNNER_ARCH values handed to the platform resolver, documented or not
RawArchs == { "ARM64", "ARM", "X86", "X64", "RISCV64", "S390X" }

\* runs with an explicit version on every OS and architecture string
ArchInit ==
    /\ variant \in Pipelines
    /\ inp \in [ channel : { "" },
                  version : { << "1",".","7" >> },
                  authkey : AuthKeyInputs,
                  oauthSecret : OauthSecretInputs,
                  tags : TagsInputs,
                  sha256sum : { << >> } ]
    /\ os \in RunnerOSes
    /\ arch \in RawArchs
    /\ timeoutStr = << "2", "m" >>
    /\ additionalArgs = << >>
    /\ pc = "start"
    /\ Fresh

\* run() up to the platform resolver
ArchSpec == ArchInit /\ [][Validate \/ Resolve \/ Platform]_vars

\* all strings over chars of length at most n
Strings(chars, n) == UNION { [ 1 .. k -> chars ] : k \in 0 .. n }

\* inputs of a run with an authkey and nothing else set
PlainInputs ==
    [ channel |-> "", version |-> << >>, authkey |-> "tskey", oauthSecret |-> "",
      tags |-> "", sha256sum |-> << >> ]

\* characters of the duration strings: digits, units, an upper-case unit,
\* whitespace, a sign and a decimal point
DurationChars == { "0", "1", "m", "s", "h", "M", " ", "-", "." }

DurationInit ==
    /\ variant = "main"
    /\ inp = PlainInputs
    /\ os = "Linux"
    /\ arch = "X64"
    /\ timeoutStr \in Strings(DurationChars, MaxDurationLen)
    /\ additionalArgs = << >>
    /\ pc = "call"
    /\ Fresh

\* const timeoutMs = parseDurationToMs(timeoutStr)
ParseTimeout ==
    /\ pc = "call"
    /\ timeoutMs' = parseDurationToMs(timeoutStr)
    /\ pc' = "return"
    /\ UNCHANGED << runVars, pipeVars, status, failMsg, effects, warnings, upArgs,
                    extraArgs, childVars >>

\* parseDurationToMs applied to every string of the bounded set
DurationSpec == DurationInit /\ [][ParseTimeout]_vars

\* characters of the argument strings
ArgChars == { "a", "b", " ", "\t", Quote }

ArgsInit ==
    /\ variant = "main"
    /\ inp = PlainInputs
    /\ os = "Linux"
    /\ arch = "X64"
    /\ timeoutStr = << "2", "m" >>
    /\ additionalArgs \in Strings(ArgChars, MaxArgsLen)
    /\ pc = "call"
    /\ Fresh

\* ...splitArgs(additionalArgs)
SplitAdditionalArgs ==
    /\ pc = "call"
    /\ extraArgs' = splitArgs(additionalArgs)
    /\ pc' = "return"
    /\ UNCHANGED << runVars, pipeVars, status, failMsg, effects, warnings, upArgs,
                    timeoutMs, childVars >>

\* splitArgs applied to every string of the bounded set
ArgsSpec == ArgsInit /\ [][SplitAdditionalArgs]_vars

----------------------------------------------------------------------------
(* Properties *)

SideEffects == { i \in 1 .. Len(effects) : effects[i].k \in { "net", "proc" } }

RECURSIVE MetaQueriesOf(_)
MetaQueriesOf(es) ==
    IF es = << >> THEN << >>
    ELSE (IF Head(es).op = "meta" THEN << Head(es).arg >> ELSE << >>)
         \o MetaQueriesOf(Tail(es))

DownloadStarted == \E i \in 1 .. Len(effects) : effects[i].op = "download"

\* C1: an invocation of runWithTimeout produces exactly one outcome: once the
\* Promise is settled no later callback changes its outcome, and the status
\* that run() reported from it is never replaced.
C1_ExactlyOneOutcome ==
    [][ /\ (promise # Pending => promise' = promise)
        /\ (status # "running" => status' = status /\ failMsg' = failMsg) ]_vars

\* the 'exit' listener ran after the timer had already reported the timeout
C1_Witness ==
    /\ promise = [ kind |-> "timeout" ]
    /\ firstEvent = "timer"
    /\ exitEmitted
    /\ settleCalls >= 2

\* C2: when the bring-up process of main.ts never exits, the timer fires, the
\* process is sent SIGTERM, the invocation is rejected as timed out and run()
\* ends with a failed status.
C2_TimeoutEndsRun ==
    (variant \in { "main", "archive" } /\ pc = "up" /\ childKind = "hang")
      ~> ( /\ pc = "done"
           /\ status = "failed"
           /\ failMsg = [ kind |-> "timeout" ]
           /\ sigterm )

C2_Witness ==
    /\ variant = "main"
    /\ childKind = "hang"
    /\ pc = "done"
    /\ sigterm
    /\ failMsg = [ kind |-> "timeout" ]

\* C3: when the child exits before the timer fires, the outcome is success
\* exactly if the exit code is 0, a non-zero code gives a failure carrying that
\* code, and no timeout is reported.
C3_ExitFirstOutcome ==
    (exitEmitted /\ firstEvent = "exit") =>
        /\ (promise.kind = "success") <=> (exitCode = 0)
        /\ exitCode # 0 => promise = [ kind |-> "exit", code |-> exitCode ]
        /\ promise.kind # "timeout"
        /\ ~sigterm

C3_Witness ==
    /\ exitEmitted
    /\ firstEvent = "exit"
    /\ exitCode = 1
    /\ timer = "cleared"
    /\ failMsg = [ kind |-> "exit", code |-> 1 ]

\* C4: a finished run is either a success, and then the bring-up command exited
\* with code 0 before its timer fired, or it is failed with a message.
C4_BinaryResult ==
    /\ status \in { "running", "success", "failed" }
    /\ pc = "done" =>
          \/ /\ status = "success"
             /\ exitEmitted
             /\ exitCode = 0
             /\ variant \in Pipelines => firstEvent = "exit"
          \/ /\ status = "failed"
             /\ failMsg # NoMsg
    /\ status # "running" => pc = "done"

C4_Witness ==
    /\ variant = "pkg"
    /\ pc = "done"
    /\ status = "success"

\* C5: with channel and version both given the run fails with the
\* configuration error, and no network call or process precedes it.
C5_ConflictRejected ==
    (variant \in Pipelines /\ inp.channel # "" /\ inp.version # << >>) =>
        /\ pc \in { "start", "done" }
        /\ pc = "done" => status = "failed" /\ failMsg = [ kind |-> "conflict" ]
        /\ effects = << >>

C5_Witness ==
    /\ inp.channel = "stable"
    /\ inp.version = << "1",".","7" >>
    /\ pc = "done"
    /\ failMsg = [ kind |-> "conflict" ]

\* C6: with an empty authkey, OAuth secret plus tags pass identity validation,
\* and empty tags are rejected with a configuration error and no side effect,
\* with or without an OAuth secret.
C6_IdentityValidation ==
    variant \in Pipelines =>
      /\ (inp.authkey = "" /\ inp.tags = "" /\ pc # "start") =>
            /\ pc = "done"
            /\ status = "failed"
            /\ failMsg \in { [ kind |-> "identity" ], [ kind |-> "conflict" ] }
            /\ effects = << >>
      /\ (inp.authkey = "" /\ inp.oauthSecret # "" /\ inp.tags # "") =>
            /\ failMsg # [ kind |-> "identity" ]
            /\ (inp.channel = "" \/ inp.version = << >>) =>
                   failMsg # [ kind |-> "conflict" ]

C6_Witness ==
    /\ inp.authkey = ""
    /\ inp.oauthSecret # ""
    /\ inp.tags = ""
    /\ pc = "done"
    /\ failMsg = [ kind |-> "identity" ]

\* C7: a run gets past identity validation only with exactly one identity
\* form: the authkey alone, or the OAuth secret with tags alone.
C7_ExactlyOneIdentity ==
    (variant \in Pipelines /\ pc = "resolve") =>
        \/ inp.authkey # "" /\ inp.oauthSecret = ""
        \/ inp.authkey = "" /\ inp.oauthSecret # "" /\ inp.tags # ""

\* C8: a bring-up command built with the OAuth-derived credential never has
\* an empty --advertise-tags= value.
C8_OauthHasTags ==
    (variant \in Pipelines /\ upArgs.built /\ upArgs.oauth) =>
        upArgs.tagsFlag /\ upArgs.tagsValue # ""

\* C9: a run that fails for an unsupported runner OS has made no network call
\* and started no process before.
C9_UnsupportedNoSideEffects ==
    (pc = "done" /\ failMsg = [ kind |-> "unsupported" ]) => SideEffects = { }

\* C10: in main.ts the version is fixed before the download: the latest of the
\* given channel, the latest of stable for no channel and an empty or 'latest'
\* version, and otherwise the version input verbatim, from the stable channel
\* and with no metadata query.
C10_VersionResolution ==
    (variant \in { "main", "archive" } /\ (pc = "download" \/ DownloadStarted)) =>
        /\ finalVersion # << >>
        /\ IF inp.channel # ""
           THEN /\ finalChannel = inp.channel
                /\ MetaQueriesOf(effects) = << inp.channel >>
                /\ finalVersion = LatestOf(inp.channel)
           ELSE IF inp.version = << >> \/ ToLowerCase(inp.version) = LATEST
           THEN /\ finalChannel = "stable"
                /\ MetaQueriesOf(effects) = << "stable" >>
                /\ finalVersion = LatestOf("stable")
           ELSE /\ finalChannel = "stable"
                /\ MetaQueriesOf(effects) = << >>
                /\ finalVersion = inp.version

C10_Witness ==
    /\ variant = "main"
    /\ pc = "download"
    /\ inp.channel = ""
    /\ inp.version = << "L","a","t","e","s","t" >>
    /\ finalVersion = LatestOf("stable")

\* C11: the metadata query is issued at most once per run, and a run whose
\* query did not yield a version (status other than 200, or no Version field)
\* is failed with that error and has made no other network call, started no
\* process and touched no file.
C11_MetadataSingleAttempt ==
    /\ Len(MetaQueriesOf(effects)) <= 1
    /\ MetaQueriesOf(effects) # << >> =>
         \/ finalVersion = LatestOf(finalChannel)
         \/ /\ pc = "done"
            /\ status = "failed"
            /\ failMsg \in { [ kind |-> "meta-http" ], [ kind |-> "meta-noversion" ] }
            /\ effects = << Net("meta", finalChannel) >>
    /\ failMsg \in { [ kind |-> "meta-http" ], [ kind |-> "meta-noversion" ] } =>
         /\ pc = "done"
         /\ effects = << Net("meta", finalChannel) >>

C11_Witness ==
    /\ variant = "main"
    /\ pc = "done"
    /\ status = "failed"
    /\ failMsg = [ kind |-> "meta-noversion" ]
    /\ effects = << Net("meta", "unstable") >>
\* the download of the artifact has completed
Downloaded ==
    /\ DownloadStarted
    /\ failMsg # [ kind |-> "download" ]

ShaFetches == { i \in 1 .. Len(effects) : effects[i].op = "sha256" }

\* steps of the install/extract, daemon and bring-up stages
AfterVerifySteps ==
    { i \in 1 .. Len(effects) : effects[i].k \in { "proc", "fs" } }

\* C12: once the artifact is downloaded and an expected checksum is known
\* (from the input or from the .sha256 URL) that differs from the digest of
\* the file, no install, extract, daemon or bring-up step is ever recorded and
\* a finished run is failed with the mismatch error.
C12_MismatchAborts ==
    ( /\ variant \in Pipelines
      /\ Downloaded
      /\ pc # "sha"
      /\ sha256sum # << >>
      /\ StripWhitespace(sha256sum) # computeFileSha256 ) =>
        /\ AfterVerifySteps = { }
        /\ pc \in { "verify", "done" }
        /\ pc = "done" => status = "failed" /\ failMsg = [ kind |-> "sha-mismatch" ]

\* the checksum fetched from the .sha256 URL differs from the file's digest
C12_Witness ==
    /\ variant = "pkg"
    /\ inp.sha256sum = << >>
    /\ sha256sum = OtherDigest
    /\ pc = "done"
    /\ failMsg = [ kind |-> "sha-mismatch" ]
    /\ AfterVerifySteps = { }

\* C13: verification of a known expected digest fails exactly if the digest
\* differs from the hex SHA-256 of the file after whitespace is removed and
\* letter case is ignored.
C13_ChecksumNormalised ==
    ( /\ variant \in Pipelines
      /\ Downloaded
      /\ pc \notin { "sha", "verify" }
      /\ sha256sum # << >> ) =>
        ( failMsg = [ kind |-> "sha-mismatch" ]
            <=> ToLowerCase(StripWhitespace(sha256sum))
                  # ToLowerCase(computeFileSha256) )

\* C14: the .sha256 URL is fetched at most once, and exactly in the runs
\* without a checksum input; a fetch that fails or yields no checksum leaves
\* the run going: the warning is logged, verification is skipped and the
\* install/extract step is entered.
C14_ShaFetchBestEffort ==
    variant \in Pipelines =>
      /\ Cardinality(ShaFetches) <= 1
      /\ ShaFetches # { } => inp.sha256sum = << >>
      /\ (Downloaded /\ pc # "sha" /\ inp.sha256sum = << >>) => ShaFetches # { }
      /\ (ShaFetches # { } /\ sha256sum = << >>) =>
            /\ failMsg \notin { [ kind |-> "sha-fetch" ], [ kind |-> "sha-mismatch" ] }
            /\ pc # "verify" =>
                  /\ "no-sha" \in warnings
                  /\ pc = "install" \/ AfterVerifySteps # { }

\* the .sha256 URL answered 404 and the archive was extracted all the same
C14_Witness ==
    /\ variant = "main"
    /\ inp.sha256sum = << >>
    /\ "sha-fetch-failed" \in warnings
    /\ "no-sha" \in warnings
    /\ \E i \in 1 .. Len(effects) : effects[i].op = "extract"
    /\ pc = "daemon"
\* the stage a recorded step belongs to, numbered in pipeline order
StageOf(e) ==
    CASE e.op = "meta"     -> 1
      [] e.op = "download" -> 3
      [] e.op = "sha256"   -> 4
      [] e.op \in { "installer", "extract", "unlink", "rename", "pkg-installer",
                    "launchctl-load", "launchctl-start" } -> 6
      [] e.op \in { "mkdir", "daemon", "status" } -> 7
      [] e.op \in { "hostname", "up" } -> 8
      [] OTHER -> 0

\* the stage run() is about to execute
StageOfPc ==
    CASE pc = "start"    -> 0
      [] pc = "resolve"  -> 1
      [] pc = "platform" -> 2
      [] pc = "download" -> 3
      [] pc = "sha"      -> 4
      [] pc = "verify"   -> 5
      [] pc = "install"  -> 6
      [] pc = "daemon"   -> 7
      [] pc = "bringup"  -> 8
      [] pc = "up"       -> 9
      [] OTHER           -> 10

StepsOfStage(n) == { i \in 1 .. Len(effects) : StageOf(effects[i]) = n }

\* C15: the steps of a run are recorded in the order version resolution,
\* platform resolution, download, checksum, install/extract, daemon launch,
\* bring-up; no step is recorded before run() has reached its stage, and the
\* bring-up command is started only after the download, the verification and
\* the install/extract step of that run.
C15_StageOrder ==
    variant \in Pipelines =>
      LET stages == [ i \in 1 .. Len(effects) |-> StageOf(effects[i]) ]
          seen   == { stages[i] : i \in 1 .. Len(effects) }
      IN  /\ \A i \in 1 .. Len(effects) - 1 : stages[i] <= stages[i + 1]
          /\ \A n \in seen : n > 0 /\ n < StageOfPc
          /\ StageOfPc \in 3 .. 9 => finalVersion # << >> /\ plat.fileName # << >>
          /\ (4 \in seen \/ 6 \in seen) => 3 \in seen
          /\ 7 \in seen => \E i \in 1 .. Len(effects) : effects[i].op = "extract"
          /\ 8 \in seen =>
                /\ 3 \in seen
                /\ 6 \in seen
                /\ \/ "no-sha" \in warnings
                   \/ /\ sha256sum # << >>
                      /\ StripWhitespace(sha256sum) = computeFileSha256

\* a run that passed through every stage and is waiting for the bring-up
C15_Witness ==
    /\ variant = "archive"
    /\ pc = "up"
    /\ \A n \in { 1, 3, 4, 6, 7, 8 } : StepsOfStage(n) # { }
ArchNames == { "arm64", "arm", "386", "amd64" }

\* the table of the architecture mapping
ExpectedArch(a) ==
    IF a = "ARM64" THEN "arm64"
    ELSE IF a = "ARM" THEN "arm"
    ELSE IF a = "X86" THEN "386"
    ELSE "amd64"

\* the architecture names that occur in a file name
NamedArchs(fileName) ==
    { fileName[i] : i \in 1 .. Len(fileName) } \cap ArchNames

\* C16: for every architecture string the mapping yields arm64 for ARM64,
\* arm for ARM, 386 for X86 and amd64 for anything else; a resolved artifact
\* file name carries no other architecture than the mapped one, and the
\* names of the Linux archive and of every part_002 archive carry it.
C16_ArchMapping ==
    /\ mapArch(arch) = ExpectedArch(arch)
    /\ plat # NoPlat =>
          /\ NamedArchs(plat.fileName) \subseteq { ExpectedArch(arch) }
          /\ (os = "Linux" \/ variant = "archive") =>
                NamedArchs(plat.fileName) = { ExpectedArch(arch) }

\* an architecture string outside the table, resolved for Linux
C16_Witness ==
    /\ variant = "main"
    /\ os = "Linux"
    /\ arch = "RISCV64"
    /\ pc = "download"
    /\ NamedArchs(plat.fileName) = { "amd64" }
MsUnits == { << a, b >> : a \in { "m", "M" }, b \in { "s", "S" } }

\* milliseconds per unit, 0 for a string that is no unit
UnitScale(u) ==
    IF u \in MsUnits THEN 1
    ELSE IF u \in { << "s" >>, << "S" >> } THEN 1000
    ELSE IF u \in { << "m" >>, << "M" >> } THEN 60000
    ELSE IF u \in { << "h" >>, << "H" >> } THEN 3600000
    ELSE 0

\* value of a decimal numeral, most significant digit first
RECURSIVE DecimalValue(_, _)
DecimalValue(ds, acc) ==
    IF ds = << >> THEN acc
    ELSE DecimalValue(Tail(ds), acc * 10 + DigitValue(Head(ds)))

\* the ways to read s as whitespace, <n>, <unit>, whitespace: n is s[i+1..j],
\* the unit is s[j+1..k]
DurationForms(s) ==
    { f \in { g \in (0 .. Len(s)) \X (1 .. Len(s)) \X (2 .. Len(s)) :
                g[1] < g[2] /\ g[2] < g[3] } :
        /\ \A p \in 1 .. f[1] : s[p] \in Whitespace
        /\ \A p \in (f[1] + 1) .. f[2] : \E d \in 0 .. 9 : s[p] = Digits[d + 1]
        /\ UnitScale(SubSeq(s, f[2] + 1, f[3])) # 0
        /\ \A p \in (f[3] + 1) .. Len(s) : s[p] \in Whitespace }

\* C17: parseDurationToMs returns a value for every input: n times 1, 1000,
\* 60000 or 3600000 for <n><unit> with unit ms, s, m or h in any letter case
\* and with optional surrounding whitespace, and 120000 for every other input.
C17_DurationParser ==
    /\ pc = "return" => timeoutMs \in Nat
    /\ pc = "return" =>
          LET forms == DurationForms(timeoutStr)
          IN  IF forms # { }
              THEN \A f \in forms :
                     timeoutMs = DecimalValue(SubSeq(timeoutStr, f[1] + 1, f[2]), 0)
                                   * UnitScale(SubSeq(timeoutStr, f[2] + 1, f[3]))
              ELSE timeoutMs = 120000

\* an upper-case unit after leading whitespace
C17_Witness ==
    /\ pc = "return"
    /\ timeoutStr = << " ", "1", "M" >>
    /\ timeoutMs = 60000
\* tokens.join(' ')
RECURSIVE JoinSpace(_)
JoinSpace(tokens) ==
    IF tokens = << >> THEN << >>
    ELSE IF Len(tokens) = 1 THEN Head(tokens)
    ELSE Head(tokens) \o << " " >> \o JoinSpace(Tail(tokens))

QuoteCount(s) == Cardinality({ i \in 1 .. Len(s) : s[i] = Quote })

\* a quoted segment needs an opening and a closing quote
HasQuotedSegment(s) == QuoteCount(s) >= 2

\* s with every run of separators (whitespace, an unpaired quote) replaced
\* by one space; s has no separator at either end
RECURSIVE CollapseRuns(_)
CollapseRuns(s) ==
    IF s = << >> THEN << >>
    ELSE IF Head(s) \notin Whitespace \cup { Quote }
    THEN << Head(s) >> \o CollapseRuns(Tail(s))
    ELSE IF Tail(s) # << >> /\ Head(Tail(s)) \in Whitespace \cup { Quote }
    THEN CollapseRuns(Tail(s))
    ELSE << " " >> \o CollapseRuns(Tail(s))

RECURSIVE StripSeparators(_)
StripSeparators(s) ==
    IF s # << >> /\ Head(s) \in Whitespace \cup { Quote }
    THEN StripSeparators(Tail(s))
    ELSE IF s # << >> /\ s[Len(s)] \in Whitespace \cup { Quote }
    THEN StripSeparators(SubSeq(s, 1, Len(s) - 1))
    ELSE s

\* tokens separated by single spaces, nothing before the first or after the last
SingleSpaced(s) ==
    /\ \A i \in 1 .. Len(s) : s[i] \notin (Whitespace \cup { Quote }) \ { " " }
    /\ s # << >> => s[1] # " " /\ s[Len(s)] # " "
    /\ \A i \in 1 .. Len(s) - 1 : ~(s[i] = " " /\ s[i + 1] = " ")

\* C18 as stated: for an input without a quoted segment, the tokens of
\* splitArgs joined with single spaces are the input.
C18_RoundTrip ==
    (pc = "return" /\ ~HasQuotedSegment(additionalArgs)) =>
        JoinSpace(extraArgs) = additionalArgs

\* C18: for an input without a quoted segment, the tokens of splitArgs joined
\* with single spaces are the input with leading and trailing separators
\* removed and every other run of separators replaced by one space, a
\* separator being a whitespace character or the unpaired quote; the input
\* itself comes back when its tokens are separated by single spaces.
C18_RoundTripCollapsed ==
    (pc = "return" /\ ~HasQuotedSegment(additionalArgs)) =>
        /\ JoinSpace(extraArgs) = CollapseRuns(StripSeparators(additionalArgs))
        /\ SingleSpaced(additionalArgs) => JoinSpace(extraArgs) = additionalArgs

\* two spaces between two words
C18_Witness ==
    /\ pc = "return"
    /\ additionalArgs = << "a", " ", " ", "b" >>
    /\ extraArgs = << << "a" >>, << "b" >> >>

\* the words of a string without quotes
RECURSIVE Words(_)
Words(s) ==
    LET t == TrimStart(s)
        n == IF \E i \in 1 .. Len(t) : t[i] \in Whitespace
             THEN (CHOOSE i \in 1 .. Len(t) :
                     /\ t[i] \in Whitespace
                     /\ \A j \in 1 .. i - 1 : t[j] \notin Whitespace) - 1
             ELSE Len(t)
    IN  IF t = << >> THEN << >>
        ELSE << SubSeq(t, 1, n) >> \o Words(SubSeq(t, n + 1, Len(t)))

\* C19: empty input gives no token, and an input made of words, one
\* double-quoted run and more words gives the words before it, then the
\* interior of the run as one token without its quotes, then the words after
\* it, whatever the interior is.
C19_QuotedRunIsOneToken ==
    pc = "return" =>
      /\ additionalArgs = << >> => extraArgs = << >>
      /\ \A i, k \in 1 .. Len(additionalArgs) :
            ( /\ i < k
              /\ additionalArgs[i] = Quote
              /\ additionalArgs[k] = Quote
              /\ QuoteCount(additionalArgs) = 2 ) =>
                extraArgs = Words(SubSeq(additionalArgs, 1, i - 1))
                              \o << SubSeq(additionalArgs, i + 1, k - 1) >>
                              \o Words(SubSeq(additionalArgs, k + 1, Len(additionalArgs)))
UpStarted == \E i \in 1 .. Len(effects) : effects[i].op = "up"

ProbeRan == \E i \in 1 .. Len(effects) : effects[i].op = "status"

\* the archive was extracted and holds no daemon where run() looks for it
DaemonAbsent == daemonDir # "none" /\ daemonAt # daemonDir

\* C20: once the status probe has run, whatever its result, and once the
\* daemon binary was found absent, the run goes on to the bring-up command:
\* it is not failed by either, a failed probe and an absent binary have
\* their warning logged, and a finished run has executed the bring-up.
C20_DaemonProblemsAreWarnings ==
    variant \in Pipelines =>
      /\ (ProbeRan \/ DaemonAbsent) =>
            /\ pc \in { "bringup", "up", "done" }
            /\ pc = "done" => UpStarted
            /\ status = "failed" =>
                  failMsg.kind \in { "exit", "timeout", "error" }
      /\ DaemonAbsent <=> "no-daemon" \in warnings
      /\ "probe-failed" \in warnings => ProbeRan

\* the probe failed and the bring-up succeeded afterwards
C20_Witness ==
    /\ variant = "main"
    /\ "probe-failed" \in warnings
    /\ pc = "done"
    /\ status = "success"
    /\ UpStarted
\* C21: the exit handler and the timer handler share one completion flag
\* that the first of them sets and both check, so the handler that runs
\* second makes no call of resolve() or reject().
C21_SingleSettleAttempt ==
    (variant \in { "main", "archive" } /\ firstEvent \in { "exit", "timer" }) =>
        /\ exited
        /\ settleCalls <= 1

\* C22: once the 'exit' listener has run, the child is sent no signal: a
\* SIGTERM was sent only by a timer callback that ran before the listener,
\* and when the listener ran first the timer is cancelled, nothing was
\* killed and no timeout is reported.
C22_NoSignalAfterExit ==
    (variant \in Pipelines /\ exitEmitted) =>
        /\ exited
        /\ timer \in { "cleared", "fired" }
        /\ sigterm => firstEvent = "timer" /\ timer = "fired"
        /\ firstEvent = "exit" =>
              /\ timer = "cleared"
              /\ ~sigterm
              /\ ~killed
              /\ promise.kind # "timeout"

\* the child exited with code 0 before the timer and the run has finished
C22_Witness ==
    /\ variant = "archive"
    /\ exitEmitted
    /\ firstEvent = "exit"
    /\ exitCode = 0
    /\ timer = "cleared"
    /\ pc = "done"
    /\ status = "success"
\* the run was ended by a check of its configuration
ConfigRejected == failMsg.kind \in { "conflict", "identity", "invalid-channel" }

\* C23: past version resolution, main.ts and part_003 have done what the
\* inputs alone determine: a run with channel and version both set, with no
\* valid identity or with a channel other than stable and unstable is
\* rejected; any other run has the given channel, or stable without one, as
\* its download channel and has queried that channel's metadata exactly when
\* a channel is given or the version is empty or 'latest'.
C23_SameResolution ==
    (variant \in { "main", "pkg" } /\ pc \notin { "start", "resolve" }) =>
        LET invalid == \/ inp.channel # "" /\ inp.version # << >>
                       \/ inp.authkey = "" /\ (inp.oauthSecret = "" \/ inp.tags = "")
                       \/ inp.channel \notin { "", "stable", "unstable" }
            channel == IF inp.channel = "" THEN "stable" ELSE inp.channel
            query   == \/ inp.channel # ""
                       \/ inp.version = << >>
                       \/ inp.version \in { << "l","a","t","e","s","t" >>,
                                             << "L","a","t","e","s","t" >> }
        IN  /\ ConfigRejected <=> invalid
            /\ ~ConfigRejected =>
                  /\ finalChannel = channel
                  /\ MetaQueriesOf(effects) = IF query THEN << channel >> ELSE << >>

\* C24: in the go-install variant a bring-up process that never exits is
\* timed out: the run reaches a terminal state.
C24_GoUpBounded ==
    (variant = "goinstall" /\ pc = "goexec" /\ childKind = "hang") ~> (pc = "done")

\* the install or extract step of a variant
InstallSteps ==
    { i \in 1 .. Len(effects) :
        effects[i].op \in { "installer", "extract", "pkg-installer" } }

\* C25: a resolved platform has a file name and exactly one install
\* strategy, the branch for 'no strategy' is never taken, and the bring-up
\* command of a pipeline is spawned only after an install or extract step.
C25_OneInstallStrategy ==
    variant \in Pipelines =>
      /\ plat.fileName # << >> =>
            Cardinality({ f \in { "installer", "pkg", "extract" } : plat[f] }) = 1
      /\ pc \in { "download", "sha", "verify", "install" } => plat.fileName # << >>
      /\ "nothing-done" \notin warnings
      /\ status # "none"
      /\ UpStarted => InstallSteps # { }

\* the Windows installer of part_003 ran and bring-up was started
C25_Witness ==
    /\ variant = "pkg"
    /\ os = "Windows"
    /\ plat.installer
    /\ pc = "up"
    /\ InstallSteps # { }
    /\ UpStarted

\* C26: in the Linux archive path of part_003 the daemon is looked up in the
\* directory that was put on PATH, so a daemon in that directory is launched.
C26_LookupDirIsPathDir ==
    (variant = "pkg" /\ os = "Linux" /\ searchPath # "none") =>
        /\ daemonDir = searchPath
        /\ daemonAt = searchPath => "no-daemon" \notin warnings
====
